---- MODULE Spec2Model ----
(***************************************************************************)
(* Model of mods.py (Oblivion Remastered mod manager): the archive reader, *)
(* the single-folder prefix detection, the ESP / Pak-set classifiers and   *)
(* the selective extractor, the plugins.txt registry, the load-order       *)
(* dialogue, the ESP and Pak installations and the batch loop.             *)
(*                                                                         *)
(* Text is modelled structurally.  A file or folder name is a record       *)
(* [stem, ext] standing for the string stem \o ext, where ext is either "" *)
(* or the part of the name from its last dot on, and stem holds no dot.    *)
(* An archive path is [segs, slash]: the '/'-separated names and whether   *)
(* the string ends in '/'.  A destination path is [under, rel].            *)
(***************************************************************************)
EXTENDS Integers, Sequences, FiniteSets, TLC

VARIABLES
    archive_ext,      \* Path(archive_path).suffix, as the caller spells it
    RAR_SUPPORT,      \* whether "import rarfile" succeeded
    SEVENZIP_SUPPORT, \* whether "import py7zr" succeeded
    fault,            \* the exception the archive library raises on this archive ("none": it reads)
    members,          \* the (path, is_dir) list of the archive, in enumeration order
    op,               \* the function that has run ("none" before any call)
    listed,           \* what _get_archive_member_list returned
    prefix,           \* what _detect_single_folder_prefix returned
    esps,             \* what find_esps_in_archive returned
    pak_sets,         \* what find_pak_sets_in_archive returned
    raised,           \* the exception the function raised (None: it returned)
    files_to_extract, \* the archive paths _extract_files_from_archive is asked for
    target_ok,        \* whether the target directory exists or can be created
    fs,               \* the files under the target directory
    written,          \* the files the call wrote
    extracted,        \* what _extract_files_from_archive returned
    plugins_txt,      \* the lines of plugins.txt
    returned,         \* what the last function returned: "True", "False" or "None"
    pc,               \* where the program stands: "idle", or at a prompt
    default_section,  \* the default entries the last process_load_order read
    custom_section,   \* the custom entries the last process_load_order read
    message,          \* the last message printed that tells the path taken
    selected,         \* the ESP path or Pak set selected for installation (None: nothing)
    temp_dir,         \* the temporary directory of process_esp_installation:
                      \* "none", "exists", "removed" or "removal failed"
    batch,            \* main: archive_files_batch
    invoked,          \* main: the archives install_mod_from_archive was called for
    batch_results,    \* main: what these calls returned
    batch_pc          \* main: "none", "running", "complete" or "exited"

env == <<archive_ext, RAR_SUPPORT, SEVENZIP_SUPPORT, fault, members>>

results == <<listed, prefix, esps, pak_sets>>

extraction == <<files_to_extract, target_ok, fs, written, extracted>>

load_order == <<pc, default_section, custom_section>>

registry == <<plugins_txt, returned, pc, default_section, custom_section, message>>

installation == <<selected, temp_dir>>

batching == <<batch, invoked, batch_results, batch_pc>>

vars == <<archive_ext, RAR_SUPPORT, SEVENZIP_SUPPORT, fault, members, op, listed,
          prefix, esps, pak_sets, raised, files_to_extract, target_ok, fs, written,
          extracted, plugins_txt, returned, pc, default_section, custom_section,
          message, selected, temp_dir, batch, invoked, batch_results, batch_pc>>

(***************************************************************************)
(* Bounds of the model.                                                    *)
(***************************************************************************)
MaxMembers == 4

MaxPakMembers == 6

MaxRequested == 3

MaxLines == 4

MaxNumbers == 3

MaxBatch == 2

(***************************************************************************)
(* Strings.                                                                *)
(***************************************************************************)
None == [none |-> TRUE]

Nm(stem, ext) == [stem |-> stem, ext |-> ext]

\* str.lower() on the letters the model's names are written with
LowerStr(s) ==
    CASE s = "Mod" -> "mod"
      [] s = "A" -> "a"
      [] s = "P" -> "p"
      [] s = "__MACOSX" -> "__macosx"
      [] s = ".UCAS" -> ".ucas"
      [] s = ".ESP" -> ".esp"
      [] s = ".DS_Store" -> ".ds_store"
      [] s = ".ZIP" -> ".zip"
      [] s = "B" -> "b"
      [] s = " A" -> " a"
      [] s = "Oblivion" -> "oblivion"
      [] s = "Knights" -> "knights"
      [] OTHER -> s

Lower(n) == [stem |-> LowerStr(n.stem), ext |-> LowerStr(n.ext)]

LowerSegs(segs) == [i \in 1..Len(segs) |-> Lower(segs[i])]

\* name.endswith(suffixes), every suffix being a dot followed by dot-free text:
\* the name ends with it exactly when its part from the last dot on is it
EndsWith(n, suffixes) == n.ext \in suffixes

\* pathlib: Path(name).suffix; a name that only starts with a dot has none
PathSuffix(n) == IF n.stem = "" THEN "" ELSE n.ext

\* pathlib: Path(name).stem
PathStem(n) == IF n.stem = "" THEN n ELSE Nm(n.stem, "")

PAK_EXTENSIONS == {".pak", ".ucas", ".utoc"}

IGNORE_ITEMS ==
    { Nm("", ".ds_store"), Nm("__macosx", ""), Nm("", ".git"),
      Nm("", ".gitignore"), Nm("thumbs", ".db") }

\* path_str.strip('/').split('/'): the empty string splits into one empty name
PathParts(p) == IF p.segs = <<>> THEN <<Nm("", "")>> ELSE p.segs

\* bool(path_str.strip('/'))
StripNonEmpty(p) == p.segs # <<>>

\* single_folder_name + "/"
WithSlash(n) == [segs |-> <<n>>, slash |-> TRUE]

\* path_str.startswith(prefix) for a prefix name + "/"
StartsWith(p, pre) ==
    /\ p.segs # <<>>
    /\ p.segs[1] = pre.segs[1]
    /\ (Len(p.segs) > 1 \/ p.slash)

\* path_str.lower().endswith(suffixes): the last name decides, and a path that
\* ends in '/' ends with no suffix
PathEndsWith(p, suffixes) ==
    /\ p.segs # <<>>
    /\ ~p.slash
    /\ EndsWith(Lower(p.segs[Len(p.segs)]), suffixes)

(***************************************************************************)
(* The archives of the model.                                              *)
(***************************************************************************)
FileEntry(segs) == [path |-> [segs |-> segs, slash |-> FALSE], is_dir |-> FALSE]

DirEntry(segs) == [path |-> [segs |-> segs, slash |-> TRUE], is_dir |-> TRUE]

\* a directory as rar and 7z list it: no trailing '/'
BareDirEntry(segs) == [path |-> [segs |-> segs, slash |-> FALSE], is_dir |-> TRUE]

Entries ==
    { FileEntry(<<Nm("Mod", ""), Nm("a", ".pak")>>),
      FileEntry(<<Nm("Mod", ""), Nm("a", ".ucas")>>),
      FileEntry(<<Nm("Mod", ""), Nm("a", ".utoc")>>),
      FileEntry(<<Nm("Mod", ""), Nm("A", ".UCAS")>>),
      FileEntry(<<Nm("mod", ""), Nm("a", ".utoc")>>),
      FileEntry(<<Nm("Mod", ""), Nm("P", ".ESP")>>),
      FileEntry(<<Nm("__MACOSX", ""), Nm("P", ".ESP")>>),
      FileEntry(<<Nm("a", ".pak")>>),
      FileEntry(<<Nm("readme", ".txt")>>),
      FileEntry(<<Nm("", ".DS_Store")>>),
      DirEntry(<<Nm("Mod", "")>>),
      BareDirEntry(<<Nm("P", ".ESP")>>) }

\* the entries of archives that hold two Pak sets
PakEntries ==
    { FileEntry(<<Nm("Mod", ""), Nm("a", ".pak")>>),
      FileEntry(<<Nm("Mod", ""), Nm("a", ".ucas")>>),
      FileEntry(<<Nm("Mod", ""), Nm("a", ".utoc")>>),
      FileEntry(<<Nm("Mod", ""), Nm("A", ".UCAS")>>),
      FileEntry(<<Nm("b", ".pak")>>),
      FileEntry(<<Nm("b", ".ucas")>>),
      FileEntry(<<Nm("b", ".utoc")>>) }

\* the listings of at most n entries from U, no path listed twice
Listings(U, n) ==
    UNION { { l \in [1..k -> U] : \A i, j \in 1..k : i # j => l[i] # l[j] } : k \in 0..n }

(***************************************************************************)
(* Exceptions: the class, the text the message starts with, and whether    *)
(* the message holds the archive's path or name.                           *)
(***************************************************************************)
Exc(kind, text, names_archive) ==
    [kind |-> kind, text |-> text, names_archive |-> names_archive]

Returned(value) == [raised |-> None, value |-> value]

Raised(exc) == [raised |-> exc, value |-> <<>>]

\* the exceptions the library that reads archives of type ext can raise when
\* it opens and lists one: the file is gone, it is damaged, it cannot be read
ArchiveFaults(ext) ==
    CASE ext = ".zip" -> {"none", "FileNotFoundError", "BadZipFile", "PermissionError"}
      [] ext = ".rar" -> {"none", "FileNotFoundError", "BadRarFile", "UnrarNotFound", "PermissionError"}
      [] ext = ".7z" -> {"none", "FileNotFoundError", "Bad7zFile", "PermissionError"}
      [] OTHER -> {"none"}

(***************************************************************************)
(* _get_archive_member_list                                                *)
(***************************************************************************)
\* lines 96-105: what the body of the try statement does: it completes with the
\* listing (cls "none") or raises an exception of class cls
list_try_body(ext, rar, sevenzip, flt, listing) ==
    IF \/ ext = ".zip"
       \/ ext = ".rar" /\ rar
       \/ ext = ".7z" /\ sevenzip
    THEN IF flt = "none"
         THEN [cls |-> "none", value |-> listing]
         ELSE [cls |-> flt, value |-> <<>>]
    ELSE [cls |-> "ValueError", value |-> <<>>]

\* lines 106-109: the except clauses are tried in order, and the expression of
\* a clause is evaluated when the clause is tried.  Line 107 names rarfile and
\* py7zr, which are bound only when their import (lines 12-22) succeeded: the
\* evaluation raises NameError otherwise, and that exception leaves the function.
list_handlers(cls, rar, sevenzip) ==
    IF cls = "FileNotFoundError"
    THEN Exc("FileNotFoundError", "Archive not found", TRUE)
    ELSE IF ~rar
    THEN Exc("NameError", "name 'rarfile' is not defined", FALSE)
    ELSE IF ~sevenzip
    THEN Exc("NameError", "name 'py7zr' is not defined", FALSE)
    ELSE IF cls \in {"BadZipFile", "BadRarFile", "Bad7zFile", "ValueError"}
    THEN Exc("ValueError", "Error reading", TRUE)
    ELSE IF cls = "UnrarNotFound"
    THEN Exc("RuntimeError", "Unrar executable not found.", FALSE)
    ELSE Exc("RuntimeError", "Unexpected error reading", TRUE)

get_archive_member_list(ext_as_given, rar, sevenzip, flt, listing) ==
    LET body == list_try_body(LowerStr(ext_as_given), rar, sevenzip, flt, listing)
    IN  IF body.cls = "none" THEN Returned(body.value)
        ELSE Raised(list_handlers(body.cls, rar, sevenzip))

(***************************************************************************)
(* _detect_single_folder_prefix                                            *)
(***************************************************************************)
\* line 117: the entries the first loop does not skip
Counted(e) ==
    /\ Len(PathParts(e.path)) # 0
    /\ Lower(PathParts(e.path)[1]) \notin IGNORE_ITEMS

\* line 121 dropped: only directory entries name a top-level folder
top_level_dirs_only_dir_entries(member_list) ==
    { PathParts(member_list[i].path)[1] :
        i \in { j \in 1..Len(member_list) :
                  /\ Counted(member_list[j])
                  /\ Len(PathParts(member_list[j].path)) = 1
                  /\ member_list[j].is_dir } }

top_level_dirs(member_list) ==
    { PathParts(member_list[i].path)[1] :
        i \in { j \in 1..Len(member_list) :
                  /\ Counted(member_list[j])
                  /\ \/ Len(PathParts(member_list[j].path)) > 1
                     \/ member_list[j].is_dir } }

has_relevant_files_at_root(member_list) ==
    \E i \in 1..Len(member_list) :
        /\ Counted(member_list[i])
        /\ Len(PathParts(member_list[i].path)) = 1
        /\ ~member_list[i].is_dir
        /\ EndsWith(Lower(PathParts(member_list[i].path)[1]), {".esp"} \cup PAK_EXTENSIONS)

valid_top_dirs(member_list) ==
    { d \in top_level_dirs(member_list) : Lower(d) \notin IGNORE_ITEMS }

\* line 125 dropped: entries outside the folder go unnoticed
all_inside_unchecked(member_list, single_folder_name) == TRUE

all_inside(member_list, single_folder_name) ==
    \A i \in 1..Len(member_list) :
        (/\ StripNonEmpty(member_list[i].path)
         /\ Lower(PathParts(member_list[i].path)[1]) \notin IGNORE_ITEMS)
        => PathParts(member_list[i].path)[1] = single_folder_name

detect_single_folder_prefix(member_list) ==
    IF /\ Cardinality(valid_top_dirs(member_list)) = 1
       /\ ~has_relevant_files_at_root(member_list)
    THEN LET single_folder_name == CHOOSE d \in valid_top_dirs(member_list) : TRUE
         IN  IF all_inside(member_list, single_folder_name)
             THEN WithSlash(single_folder_name)
             ELSE None
    ELSE None

(***************************************************************************)
(* find_esps_in_archive, lines 134-141: the listing is in hand             *)
(***************************************************************************)
\* line 140 without .lower(): the extension is compared as written
IsEspMember_case_sensitive(e, pre) ==
    /\ ~e.is_dir
    /\ ~(pre # None /\ ~StartsWith(e.path, pre))
    /\ e.path.segs # <<>>
    /\ ~e.path.slash
    /\ EndsWith(e.path.segs[Len(e.path.segs)], {".esp"})

\* lines 137-140: the entry is a file, lies under the prefix when there is one,
\* and its lower-cased path ends in .esp
IsEspMember(e, pre) ==
    /\ ~e.is_dir
    /\ ~(pre # None /\ ~StartsWith(e.path, pre))
    /\ PathEndsWith(e.path, {".esp"})

RECURSIVE EspPaths(_, _)
EspPaths(member_list, pre) ==
    IF member_list = <<>> THEN <<>>
    ELSE LET e == member_list[Len(member_list)]
             before == EspPaths(SubSeq(member_list, 1, Len(member_list) - 1), pre)
         IN  IF IsEspMember(e, pre) THEN Append(before, e.path) ELSE before

esps_in_members(member_list) ==
    EspPaths(member_list, detect_single_folder_prefix(member_list))

(***************************************************************************)
(* find_pak_sets_in_archive, lines 150-166: the listing is in hand         *)
(***************************************************************************)
\* line 158 without .lower()
base_key_case_sensitive(p) ==
    Append(SubSeq(p.segs, 1, Len(p.segs) - 1), PathStem(p.segs[Len(p.segs)]))

\* line 158: (path_obj.parent / path_obj.stem).as_posix().lower()
base_key(p) ==
    LowerSegs(Append(SubSeq(p.segs, 1, Len(p.segs) - 1), PathStem(p.segs[Len(p.segs)])))

\* line 160: path_obj.suffix.lower()
suffix_lower(p) == LowerStr(PathSuffix(p.segs[Len(p.segs)]))

\* lines 152-156: the entry is a file, lies under the prefix when there is one,
\* and its lower-cased path ends in one of the three extensions
IsPakMember(e, pre) ==
    /\ ~e.is_dir
    /\ ~(pre # None /\ ~StartsWith(e.path, pre))
    /\ PathEndsWith(e.path, PAK_EXTENSIONS)

\* lines 161-163: the slot of the entry's extension takes the entry's path
SetSlot(files, p) ==
    LET ext == suffix_lower(p)
    IN  [ key  |-> files.key,
          pak  |-> IF ext = ".pak" THEN p ELSE files.pak,
          ucas |-> IF ext = ".ucas" THEN p ELSE files.ucas,
          utoc |-> IF ext = ".utoc" THEN p ELSE files.utoc ]

EmptySlots(k) == [key |-> k, pak |-> None, ucas |-> None, utoc |-> None]

\* grouping of consecutive entries only: an entry joins the latest group when
\* the keys agree and opens a new group otherwise
add_to_bases_consecutive(bases, e, pre) ==
    IF ~IsPakMember(e, pre) THEN bases
    ELSE IF bases = <<>> \/ bases[Len(bases)].key # base_key(e.path)
         THEN Append(bases, SetSlot(EmptySlots(base_key(e.path)), e.path))
         ELSE [j \in 1..Len(bases) |->
                 IF j = Len(bases) THEN SetSlot(bases[j], e.path) ELSE bases[j]]

\* lines 152-163, one pass of the loop: found_bases is the sequence of its
\* items in insertion order
add_to_bases(bases, e, pre) ==
    IF ~IsPakMember(e, pre) THEN bases
    ELSE IF \A j \in 1..Len(bases) : bases[j].key # base_key(e.path)
         THEN Append(bases, SetSlot(EmptySlots(base_key(e.path)), e.path))
         ELSE [j \in 1..Len(bases) |->
                 IF bases[j].key = base_key(e.path)
                 THEN SetSlot(bases[j], e.path) ELSE bases[j]]

\* lines 151-163: the loop from entry i on
RECURSIVE found_bases(_, _, _, _)
found_bases(member_list, pre, i, bases) ==
    IF i > Len(member_list) THEN bases
    ELSE found_bases(member_list, pre, i + 1, add_to_bases(bases, member_list[i], pre))

\* truth value of a slot: None and the empty string are false
Truthy(v) == v # None /\ v # [segs |-> <<>>, slash |-> FALSE]

\* line 165 testing the primary file only
IsComplete_pak_only(files) == Truthy(files.pak)

\* line 165
IsComplete(files) == Truthy(files.pak) /\ Truthy(files.ucas) /\ Truthy(files.utoc)

Unit(files) == [pak |-> files.pak, ucas |-> files.ucas, utoc |-> files.utoc]

pak_sets_in_members(member_list) ==
    LET found == found_bases(member_list, detect_single_folder_prefix(member_list), 1, <<>>)
        kept == SelectSeq(found, IsComplete)
    IN  [j \in 1..Len(kept) |-> Unit(kept[j])]

(***************************************************************************)
(* find_esps_in_archive and find_pak_sets_in_archive, whole                *)
(***************************************************************************)
\* lines 142-143 and 167-168 replaced by one clause that wraps every exception
finder_handlers_wrap_all(exc, text) == Exc("RuntimeError", text, TRUE)

\* lines 142-143 and 167-168: the three classes are raised again as they came,
\* any other exception becomes a RuntimeError that names the archive
finder_handlers(exc, text) ==
    IF exc.kind \in {"FileNotFoundError", "ValueError", "RuntimeError"}
    THEN exc
    ELSE Exc("RuntimeError", text, TRUE)

find_esps_in_archive(ext_as_given, rar, sevenzip, flt, listing) ==
    LET got == get_archive_member_list(ext_as_given, rar, sevenzip, flt, listing)
    IN  IF got.raised = None
        THEN Returned(esps_in_members(got.value))
        ELSE Raised(finder_handlers(got.raised, "Error searching ESPs in"))

find_pak_sets_in_archive(ext_as_given, rar, sevenzip, flt, listing) ==
    LET got == get_archive_member_list(ext_as_given, rar, sevenzip, flt, listing)
    IN  IF got.raised = None
        THEN Returned(pak_sets_in_members(got.value))
        ELSE Raised(finder_handlers(got.raised, "Error searching Pak sets in"))

(***************************************************************************)
(* _extract_files_from_archive                                             *)
(***************************************************************************)
\* lines 179, 182, 186: Path(target_dir) / member, the path that is returned
dest_path(target_dir, member) == [under |-> target_dir, rel |-> member.segs]

IsPlainSegment(n) == n \notin {Nm("..", ""), Nm(".", ""), Nm("", "")}

\* lines 179, 182: where arc.extract(member, target_dir) writes the member: the
\* library drops the segments '..', '.' and '' from the name and keeps the rest
\* under the target directory
written_path(target_dir, member) ==
    [under |-> target_dir, rel |-> SelectSeq(member.segs, IsPlainSegment)]

\* the member named is in the archive: the libraries look names up as spelled
InArchive(listing, member) == \E i \in 1..Len(listing) : listing[i].path = member

\* the position of the first requested path that is not in the archive, 0 if none
FirstMissing(listing, request) ==
    IF \A i \in 1..Len(request) : InArchive(listing, request[i]) THEN 0
    ELSE CHOOSE i \in 1..Len(request) :
            /\ ~InArchive(listing, request[i])
            /\ \A h \in 1..(i - 1) : InArchive(listing, request[h])

DestsOf(target_dir, request, n) == { written_path(target_dir, request[i]) : i \in 1..n }

\* lines 179 and 182: the members are extracted one by one; the library raises
\* at the first that is not in the archive (zipfile: KeyError; rarfile: its own
\* NoRarEntry), the members before it being written
extract_one_by_one(no_entry, listing, request, target_dir) ==
    LET k == FirstMissing(listing, request)
    IN  IF k = 0
        THEN [ cls |-> "none",
               wrote |-> DestsOf(target_dir, request, Len(request)),
               paths |-> [i \in 1..Len(request) |-> dest_path(target_dir, request[i])] ]
        ELSE [ cls |-> no_entry,
               wrote |-> DestsOf(target_dir, request, k - 1),
               paths |-> <<>> ]

\* lines 185-186: py7zr extracts the targets it finds in the archive and says
\* nothing of the others; a path is appended for every target all the same
extract_targets(listing, request, target_dir) ==
    [ cls |-> "none",
      wrote |-> { dest_path(target_dir, request[i]) :
                    i \in { h \in 1..Len(request) : InArchive(listing, request[h]) } },
      paths |-> [i \in 1..Len(request) |-> dest_path(target_dir, request[i])] ]

\* lines 177-187: the body of the try statement
extract_try_body(ext, rar, sevenzip, flt, listing, request, target_dir) ==
    LET opens == [cls |-> flt, wrote |-> {}, paths |-> <<>>] IN
    IF ext = ".zip"
    THEN IF flt # "none" THEN opens
         ELSE extract_one_by_one("KeyError", listing, request, target_dir)
    ELSE IF ext = ".rar" /\ rar
    THEN IF flt # "none" THEN opens
         ELSE extract_one_by_one("NoRarEntry", listing, request, target_dir)
    ELSE IF ext = ".7z" /\ sevenzip
    THEN IF flt # "none" THEN opens
         ELSE extract_targets(listing, request, target_dir)
    ELSE [cls |-> "ValueError", wrote |-> {}, paths |-> <<>>]

\* lines 190-193: as in the reader, line 191 names rarfile and py7zr and raises
\* NameError when it is tried with one of them unbound
extract_handlers(cls, rar, sevenzip) ==
    IF cls = "FileNotFoundError"
    THEN Exc("FileNotFoundError", "Archive not found", TRUE)
    ELSE IF ~rar
    THEN Exc("NameError", "name 'rarfile' is not defined", FALSE)
    ELSE IF ~sevenzip
    THEN Exc("NameError", "name 'py7zr' is not defined", FALSE)
    ELSE IF cls \in {"KeyError", "BadZipFile", "BadRarFile", "Bad7zFile", "ValueError"}
    THEN Exc("ValueError", "Error extracting from", TRUE)
    ELSE IF cls = "UnrarNotFound"
    THEN Exc("RuntimeError", "Unrar executable not found.", FALSE)
    ELSE Exc("RuntimeError", "Unexpected extraction error from", TRUE)

\* the whole function: [raised, value (the paths returned), wrote]
extract_files_from_archive(ext_as_given, rar, sevenzip, flt, listing, request, target_dir, dir_ok) ==
    IF ~dir_ok
    THEN [raised |-> Exc("RuntimeError", "Failed target dir", FALSE), value |-> <<>>,
          wrote |-> {}]
    ELSE LET body == extract_try_body(LowerStr(ext_as_given), rar, sevenzip, flt,
                                      listing, request, target_dir)
         IN  IF body.cls = "none"
             THEN [raised |-> None, value |-> body.paths, wrote |-> body.wrote]
             ELSE [raised |-> extract_handlers(body.cls, rar, sevenzip), value |-> <<>>,
                   wrote |-> body.wrote]

(***************************************************************************)
(* The inspection of one archive listing.                                  *)
(***************************************************************************)
\* a zip archive that opens, on an installation with both libraries
Readable ==
    /\ archive_ext = ".zip"
    /\ RAR_SUPPORT = TRUE
    /\ SEVENZIP_SUPPORT = TRUE
    /\ fault = "none"

NothingRun ==
    /\ op = "none"
    /\ listed = <<>>
    /\ prefix = None
    /\ esps = <<>>
    /\ pak_sets = <<>>
    /\ raised = None
    /\ written = {}
    /\ extracted = <<>>
    /\ returned = "None"
    /\ pc = "idle"
    /\ default_section = <<>>
    /\ custom_section = <<>>
    /\ message = "none"
    /\ selected = None
    /\ temp_dir = "none"

\* no extraction is asked for
NothingRequested ==
    /\ files_to_extract = <<>>
    /\ target_ok = TRUE
    /\ fs = {}

\* no plugins.txt
NoRegistry == plugins_txt = <<>>

\* no batch of archives
NoBatch ==
    /\ batch = <<>>
    /\ invoked = <<>>
    /\ batch_results = <<>>
    /\ batch_pc = "none"

Init ==
    /\ Readable
    /\ members \in Listings(Entries, MaxMembers)
    /\ NothingRequested
    /\ NoRegistry
    /\ NoBatch
    /\ NothingRun

ListMembers ==
    /\ op = "none"
    /\ op' = "list"
    /\ LET got == get_archive_member_list(archive_ext, RAR_SUPPORT, SEVENZIP_SUPPORT,
                                           fault, members)
       IN  listed' = got.value /\ raised' = got.raised
    /\ UNCHANGED <<env, prefix, esps, pak_sets, extraction, registry, installation, batching>>

DetectPrefix ==
    /\ op = "none"
    /\ op' = "detect"
    /\ prefix' = detect_single_folder_prefix(members)
    /\ UNCHANGED <<env, listed, esps, pak_sets, raised, extraction, registry, installation, batching>>

FindEsps ==
    /\ op = "none"
    /\ op' = "esps"
    /\ LET got == find_esps_in_archive(archive_ext, RAR_SUPPORT, SEVENZIP_SUPPORT,
                                        fault, members)
       IN  esps' = got.value /\ raised' = got.raised
    /\ UNCHANGED <<env, listed, prefix, pak_sets, extraction, registry, installation, batching>>

FindPakSets ==
    /\ op = "none"
    /\ op' = "paks"
    /\ LET got == find_pak_sets_in_archive(archive_ext, RAR_SUPPORT, SEVENZIP_SUPPORT,
                                            fault, members)
       IN  pak_sets' = got.value /\ raised' = got.raised
    /\ UNCHANGED <<env, listed, prefix, esps, extraction, registry, installation, batching>>

Next == DetectPrefix \/ FindEsps \/ FindPakSets

Spec == Init /\ [][Next]_vars

(***************************************************************************)
(* The search for Pak sets in archives that hold up to two of them.        *)
(***************************************************************************)
InitPak ==
    /\ Readable
    /\ members \in Listings(PakEntries, MaxPakMembers)
    /\ NothingRequested
    /\ NoRegistry
    /\ NoBatch
    /\ NothingRun

NextPak == FindPakSets

SpecPak == InitPak /\ [][NextPak]_vars

(***************************************************************************)
(* The reading of archives of every type, on every installation, with      *)
(* every fault of the archive library.                                     *)
(***************************************************************************)
ArchiveExts == {".zip", ".ZIP", ".rar", ".7z", ".tar"}

ReaderListings ==
    { <<>>,
      << FileEntry(<<Nm("Mod", ""), Nm("P", ".ESP")>>) >>,
      << FileEntry(<<Nm("Mod", ""), Nm("a", ".pak")>>),
         FileEntry(<<Nm("Mod", ""), Nm("a", ".ucas")>>),
         FileEntry(<<Nm("Mod", ""), Nm("a", ".utoc")>>),
         FileEntry(<<Nm("Mod", ""), Nm("P", ".ESP")>>) >> }

InitReader ==
    /\ archive_ext \in ArchiveExts
    /\ RAR_SUPPORT \in BOOLEAN
    /\ SEVENZIP_SUPPORT \in BOOLEAN
    /\ fault \in ArchiveFaults(LowerStr(archive_ext))
    /\ members \in ReaderListings
    /\ NothingRequested
    /\ NoRegistry
    /\ NoBatch
    /\ NothingRun

NextReader == ListMembers \/ FindEsps \/ FindPakSets

SpecReader == InitReader /\ [][NextReader]_vars

(***************************************************************************)
(* The extraction of requested paths from an archive into a directory.     *)
(***************************************************************************)
TargetDir == "target_dir"

ExtractListing ==
    << DirEntry(<<Nm("Mod", "")>>),
       FileEntry(<<Nm("Mod", ""), Nm("a", ".pak")>>),
       FileEntry(<<Nm("Mod", ""), Nm("a", ".ucas")>>),
       FileEntry(<<Nm("Mod", ""), Nm("a", ".utoc")>>),
       FileEntry(<<Nm("P", ".ESP")>>),
       FileEntry(<<Nm("..", ""), Nm("P", ".ESP")>>) >>

\* the paths asked for: four of them in the archive, two not (one of these is
\* in the archive under another spelling)
RequestPaths ==
    { [segs |-> <<Nm("Mod", ""), Nm("a", ".pak")>>, slash |-> FALSE],
      [segs |-> <<Nm("..", ""), Nm("P", ".ESP")>>, slash |-> FALSE],
      [segs |-> <<Nm("Mod", ""), Nm("a", ".ucas")>>, slash |-> FALSE],
      [segs |-> <<Nm("P", ".ESP")>>, slash |-> FALSE],
      [segs |-> <<Nm("Mod", ""), Nm("P", ".ESP")>>, slash |-> FALSE],
      [segs |-> <<Nm("mod", ""), Nm("a", ".utoc")>>, slash |-> FALSE] }

InitExtract ==
    /\ archive_ext \in {".zip", ".rar", ".7z", ".tar"}
    /\ RAR_SUPPORT \in BOOLEAN
    /\ SEVENZIP_SUPPORT \in BOOLEAN
    /\ fault \in ArchiveFaults(archive_ext)
    /\ members = ExtractListing
    /\ files_to_extract \in Listings(RequestPaths, MaxRequested)
    \* a name with '..' is asked of zip archives only: what the optional
    \* libraries do with one is not in the source
    /\ archive_ext # ".zip" =>
          \A i \in 1..Len(files_to_extract) :
              \A h \in 1..Len(files_to_extract[i].segs) :
                  IsPlainSegment(files_to_extract[i].segs[h])
    /\ target_ok \in BOOLEAN
    /\ fs \in { {}, { dest_path(TargetDir, [segs |-> <<Nm("Mod", ""), Nm("a", ".pak")>>,
                                              slash |-> FALSE]) } }
    /\ NoRegistry
    /\ NoBatch
    /\ NothingRun

ExtractFiles ==
    /\ op = "none"
    /\ op' = "extract"
    /\ LET got == extract_files_from_archive(archive_ext, RAR_SUPPORT, SEVENZIP_SUPPORT,
                                              fault, members, files_to_extract,
                                              TargetDir, target_ok)
       IN  /\ extracted' = got.value
           /\ raised' = got.raised
           /\ written' = got.wrote
           /\ fs' = fs \cup got.wrote
    /\ UNCHANGED <<env, results, files_to_extract, target_ok, registry, installation, batching>>

NextExtract == ExtractFiles

SpecExtract == InitExtract /\ [][NextExtract]_vars

(***************************************************************************)
(* plugins.txt: read_plugins_file, write_plugins_file, register_plugin,    *)
(* remove_plugin_from_registry                                             *)
(***************************************************************************)
\* A line of the file is a name [stem, ext] as well; the blank line is
\* Nm("", ""), and a comment line is a name whose stem begins with '#'.
BlankLine == Nm("", "")

\* str.strip() on the stems the model's lines are written with
StripStr(s) == IF s = " A" THEN "A" ELSE s

Strip(n) == [stem |-> StripStr(n.stem), ext |-> n.ext]

\* the stems that begin with '#'
HashStems == {"# note", "#x"}

StartsWithHash(n) == n.stem \in HashStems

\* line 254: the lines stripped, without the empty ones and the comments
IsEntryLine(n) == n # BlankLine /\ ~StartsWithHash(n)

read_plugins_file(file) ==
    SelectSeq([i \in 1..Len(file) |-> Strip(file[i])], IsEntryLine)

\* lines 263-264: one line for every non-empty plugin of the list
IsNonEmpty(n) == n # BlankLine

write_plugins_file(plugins_list) == SelectSeq(plugins_list, IsNonEmpty)

\* line 35-52
DEFAULT_PLUGINS ==
    { Nm("oblivion", ".esm"), Nm("dlcbattlehorncastle", ".esp"), Nm("dlcfrostcrag", ".esp"),
      Nm("dlchorsearmor", ".esp"), Nm("dlcmehrunesrazor", ".esp"), Nm("dlcorrery", ".esp"),
      Nm("dlcshiveringisles", ".esp"), Nm("dlcspelltomes", ".esp"), Nm("dlcthievesden", ".esp"),
      Nm("dlcvilelair", ".esp"), Nm("knights", ".esp"), Nm("altarespmain", ".esp"),
      Nm("altardeluxe", ".esp"), Nm("altaresplocal", ".esp") }

\* Path(p).name
PathName(p) == p.segs[Len(p.segs)]

\* line 274
IsRegistered(current_plugins, esp_basename) ==
    \E i \in 1..Len(current_plugins) : Lower(esp_basename) = Lower(current_plugins[i])

\* lines 269-277: [file, returned]; read_ok and write_ok tell whether the file
\* can be read and written
register_plugin(file, esp_filename_in_archive, read_ok, write_ok) ==
    LET esp_basename == PathName(esp_filename_in_archive)
        current_plugins == read_plugins_file(file)
    IN  IF ~read_ok THEN [file |-> file, returned |-> "False"]
        ELSE IF IsRegistered(current_plugins, esp_basename)
        THEN [file |-> file, returned |-> "True"]
        ELSE IF write_ok
        THEN [file |-> write_plugins_file(Append(current_plugins, esp_basename)),
              returned |-> "True"]
        ELSE [file |-> file, returned |-> "False"]

\* line 284
IsOtherPlugin(p, esp_basename) == Lower(p) # Lower(esp_basename)

\* lines 279-287
remove_plugin_from_registry(file, esp_basename, read_ok, write_ok) ==
    LET current_plugins == read_plugins_file(file)
        keep(p) == IsOtherPlugin(p, esp_basename)
        updated_plugins == SelectSeq(current_plugins, keep)
    IN  IF ~read_ok THEN [file |-> file, returned |-> "False"]
        ELSE IF Len(updated_plugins) = Len(current_plugins)
        THEN [file |-> file, returned |-> "True"]
        ELSE IF write_ok
        THEN [file |-> write_plugins_file(updated_plugins), returned |-> "True"]
        ELSE [file |-> file, returned |-> "False"]

(***************************************************************************)
(* process_load_order                                                      *)
(***************************************************************************)
\* line 433
IsDefaultPlugin(plugin) == Lower(plugin) \in DEFAULT_PLUGINS

IsCustomPlugin(plugin) == ~IsDefaultPlugin(plugin)

\* lines 466-474 without the test for duplicate numbers
Validation_no_duplicate_test(new_indices, num_custom) ==
    IF Len(new_indices) # num_custom THEN "wrong count"
    ELSE IF ~(\A k \in 1..Len(new_indices) : 0 <= new_indices[k] /\ new_indices[k] < num_custom)
    THEN "out of range"
    ELSE "ok"

\* lines 466-474: new_indices are the numbers entered less one
Validation(new_indices, num_custom) ==
    IF Len(new_indices) # num_custom THEN "wrong count"
    ELSE IF ~(\A k \in 1..Len(new_indices) : 0 <= new_indices[k] /\ new_indices[k] < num_custom)
    THEN "out of range"
    ELSE IF Cardinality({ new_indices[k] : k \in 1..Len(new_indices) }) # num_custom
    THEN "duplicate"
    ELSE "ok"

\* line 477
new_custom_section(custom, new_indices) ==
    [k \in 1..Len(new_indices) |-> custom[new_indices[k] + 1]]

(***************************************************************************)
(* The registry: registrations, removals and load-order dialogues.         *)
(***************************************************************************)
RegistryLines ==
    { Nm("Oblivion", ".esm"), Nm("Knights", ".esp"), Nm("A", ".esp"), Nm("B", ".esp"),
      Nm("# note", "") }

\* the archive paths of the plugins that are registered
RegisterPaths ==
    { [segs |-> <<Nm("Mod", ""), Nm("A", ".esp")>>, slash |-> FALSE],
      [segs |-> <<Nm("a", ".ESP")>>, slash |-> FALSE],
      [segs |-> <<Nm("Mod", ""), Nm(" A", ".esp")>>, slash |-> FALSE],
      [segs |-> <<Nm("Knights", ".esp")>>, slash |-> FALSE],
      [segs |-> <<Nm("B", ".esp")>>, slash |-> FALSE] }

RemoveNames == { Nm("a", ".esp"), Nm("B", ".esp"), Nm("Knights", ".esp") }

\* what is typed at "New order: ": the numbers found in it, in order
NumberInputs ==
    UNION { [1..n -> 0..(MaxNumbers + 1)] : n \in 1..MaxNumbers }

\* the default entries come first, and no two entries are equal letter case aside
DefaultsFirst(plugins) ==
    \A i, j \in 1..Len(plugins) :
        (IsDefaultPlugin(plugins[j]) /\ ~IsDefaultPlugin(plugins[i])) => j < i

NoCaseDuplicates(plugins) ==
    \A i, j \in 1..Len(plugins) : Lower(plugins[i]) = Lower(plugins[j]) => i = j

InitRegistry ==
    /\ Readable
    /\ members = <<>>
    /\ NothingRequested
    /\ NoBatch
    /\ NothingRun
    /\ plugins_txt \in Listings(RegistryLines, MaxLines)
    /\ DefaultsFirst(read_plugins_file(plugins_txt))
    /\ NoCaseDuplicates(read_plugins_file(plugins_txt))

archive_side == <<env, results, raised, extraction, installation, batching>>

RegisterPlugin ==
    /\ pc = "idle"
    /\ Len(plugins_txt) < MaxLines
    /\ \E p \in RegisterPaths, read_ok, write_ok \in BOOLEAN :
          LET got == register_plugin(plugins_txt, p, read_ok, write_ok)
          IN  /\ plugins_txt' = got.file
              /\ returned' = got.returned
              /\ message' = IF ~read_ok THEN "read failed"
                             ELSE IF IsRegistered(read_plugins_file(plugins_txt), PathName(p))
                             THEN "already registered"
                             ELSE IF write_ok THEN "added" ELSE "write failed"
    /\ op' = "register"
    /\ default_section' = <<>>
    /\ custom_section' = <<>>
    /\ UNCHANGED <<archive_side, pc>>

RemovePlugin ==
    /\ pc = "idle"
    /\ \E n \in RemoveNames, read_ok, write_ok \in BOOLEAN :
          LET got == remove_plugin_from_registry(plugins_txt, n, read_ok, write_ok)
          IN  /\ plugins_txt' = got.file
              /\ returned' = got.returned
              /\ message' = IF ~read_ok THEN "read failed"
                             ELSE IF got.file # plugins_txt THEN "removed"
                             ELSE IF got.returned = "True" THEN "not in registry" ELSE "write failed"
    /\ op' = "remove"
    /\ default_section' = <<>>
    /\ custom_section' = <<>>
    /\ UNCHANGED <<archive_side, pc>>

\* lines 417-447: up to the prompt
LoadOrderStart ==
    /\ pc = "idle"
    /\ op' = "load_order"
    /\ returned' = "None"
    /\ \E read_ok \in BOOLEAN :
          LET all_plugins == read_plugins_file(plugins_txt)
              customs == SelectSeq(all_plugins, IsCustomPlugin)
          IN  IF ~read_ok
              THEN /\ message' = "read failed"
                   /\ default_section' = <<>>
                   /\ custom_section' = <<>>
                   /\ UNCHANGED pc
              ELSE IF customs = <<>>
              THEN /\ message' = "no custom"
                   /\ default_section' = SelectSeq(all_plugins, IsDefaultPlugin)
                   /\ custom_section' = <<>>
                   /\ UNCHANGED pc
              ELSE /\ message' = "prompt"
                   /\ pc' = "new_order"
                   /\ default_section' = SelectSeq(all_plugins, IsDefaultPlugin)
                   /\ custom_section' = customs
    /\ UNCHANGED <<archive_side, plugins_txt>>

\* lines 451-454, 498-500: nothing is typed, or the input ends
LoadOrderCancel ==
    /\ pc = "new_order"
    /\ pc' = "idle"
    /\ message' = "cancelled"
    /\ UNCHANGED <<archive_side, op, plugins_txt, returned, default_section, custom_section>>

\* lines 457-460: something is typed that holds no digit
LoadOrderNoNumber ==
    /\ pc = "new_order"
    /\ message' = "format"
    /\ UNCHANGED <<archive_side, op, plugins_txt, returned, load_order>>

\* lines 462-494: numbers are typed; when they pass the validation the new
\* order is shown and saved if confirmed
LoadOrderNumbers ==
    /\ pc = "new_order"
    /\ \E typed \in NumberInputs :
          LET new_indices == [k \in 1..Len(typed) |-> typed[k] - 1]
              verdict == Validation(new_indices, Len(custom_section))
          IN  IF verdict # "ok"
              THEN /\ message' = verdict
                   /\ UNCHANGED <<plugins_txt, pc>>
              ELSE /\ pc' = "idle"
                   /\ \E confirm, write_ok \in BOOLEAN :
                         IF confirm /\ write_ok
                         THEN /\ plugins_txt' = write_plugins_file(
                                     default_section \o new_custom_section(custom_section, new_indices))
                              /\ message' = "saved"
                         ELSE /\ message' = IF confirm THEN "write failed" ELSE "not confirmed"
                              /\ UNCHANGED plugins_txt
    /\ UNCHANGED <<archive_side, op, returned, default_section, custom_section>>

NextRegistry ==
    \/ RegisterPlugin
    \/ RemovePlugin
    \/ LoadOrderStart
    \/ LoadOrderCancel
    \/ LoadOrderNoNumber
    \/ LoadOrderNumbers

SpecRegistry == InitRegistry /\ [][NextRegistry]_vars

(***************************************************************************)
(* select_esp_from_list, select_pak_set_from_list                          *)
(***************************************************************************)
\* What is typed at the menu and ends it: a number of the menu, 'c', or the
\* end of the input (EOFError, KeyboardInterrupt).  Anything else is asked
\* for again.
Choices(n) ==
    { [key |-> "number", n |-> k] : k \in 1..n }
      \cup { [key |-> "c", n |-> 0], [key |-> "eof", n |-> 0],
              [key |-> "interrupt", n |-> 0] }

\* lines 207-219 and 221-234: [kind, item]; kind "exit" is sys.exit(1), on
\* EOFError and on KeyboardInterrupt alike
select_from_list(list, choice) ==
    IF list = <<>> THEN [kind |-> "none"]
    ELSE IF Len(list) = 1 THEN [kind |-> "item", item |-> list[1]]
    ELSE IF choice.key = "number" THEN [kind |-> "item", item |-> list[choice.n]]
    ELSE IF choice.key = "c" THEN [kind |-> "none"]
    ELSE [kind |-> "exit"]

SystemExit == Exc("SystemExit", "1", FALSE)

\* Ctrl-C at a prompt that does not catch it
KeyboardInterrupt == Exc("KeyboardInterrupt", "", FALSE)

(***************************************************************************)
(* process_pak_installation                                                *)
(***************************************************************************)
PAK_MODS_PATH == "PAK_MODS_PATH"

ESP_DATA_PATH == "ESP_DATA_PATH"

\* the directory tempfile.mkdtemp(prefix="obv_esp_") makes
TempDir == "obv_esp_"

\* directory / name
flat_path(dir, name) == [under |-> dir, rel |-> <<name>>]

\* what a call leaves: the value returned or the exception raised, the
\* message of the path taken, the files, those written, what was selected
Outcome(ret, exc, msg, files, wrote, sel) ==
    [returned |-> ret, raised |-> exc, message |-> msg, fs |-> files, wrote |-> wrote,
     selected |-> sel]

\* line 370: all((PAK_MODS_PATH / tn).exists() for tn in target_names)
verified(files, target_names) ==
    \A k \in 1..Len(target_names) : flat_path(PAK_MODS_PATH, target_names[k]) \in files

\* lines 352-374.  choice: the answer at the menu; dir_ok: whether the Pak
\* directory is there or can be made; ovr: the answer to "Overwrite? (y/n)",
\* one of Answers
process_pak_installation(ext, rar, sevenzip, flt, listing, files, choice, dir_ok, ovr) ==
    LET found == find_pak_sets_in_archive(ext, rar, sevenzip, flt, listing)
        sel == select_from_list(found.value, choice)
        files_in_arc == <<sel.item.pak, sel.item.ucas, sel.item.utoc>>
        target_names == [k \in 1..3 |-> PathName(files_in_arc[k])]
        existing == { k \in 1..3 : flat_path(PAK_MODS_PATH, target_names[k]) \in files }
        ex == extract_files_from_archive(ext, rar, sevenzip, flt, listing, files_in_arc,
                                         PAK_MODS_PATH, dir_ok)
        after == files \cup ex.wrote
    IN  IF found.raised # None
        THEN Outcome("False", None, "ERROR Pak Install", files, {}, None)
        ELSE IF found.value = <<>>
        THEN Outcome("False", None, "No complete Pak sets found", files, {}, None)
        ELSE IF sel.kind = "exit"
        THEN Outcome("None", SystemExit, "Cancelled", files, {}, None)
        ELSE IF sel.kind = "none"
        THEN Outcome("False", None, "Cancelled", files, {}, None)
        ELSE IF ~dir_ok
        THEN Outcome("False", None, "Could not create directory", files, {}, sel.item)
        ELSE IF existing # {} /\ ovr = "n"
        THEN Outcome("False", None, "Pak install cancelled", files, {}, sel.item)
        ELSE IF existing # {} /\ ovr = "eof"
        THEN Outcome("False", None, "UNEXPECTED Pak Install ERROR", files, {}, sel.item)
        ELSE IF existing # {} /\ ovr = "interrupt"
        THEN Outcome("None", KeyboardInterrupt, "Interrupted", files, {}, sel.item)
        ELSE IF ex.raised # None
        THEN Outcome("False", None,
                     IF ex.raised.kind \in {"ValueError", "FileNotFoundError", "RuntimeError"}
                     THEN "ERROR Pak Install" ELSE "UNEXPECTED Pak Install ERROR",
                     after, ex.wrote, sel.item)
        ELSE IF ~verified(after, target_names)
        THEN Outcome("False", None, "Pak Install Fail (Verify)", after, ex.wrote, sel.item)
        ELSE Outcome("True", None, "Pak Install OK", after, ex.wrote, sel.item)

(***************************************************************************)
(* extract_esp_to_temp, install_esp_file, process_esp_installation         *)
(***************************************************************************)
\* lines 196-203: [raised, path, fs, wrote]
extract_esp_to_temp(ext, rar, sevenzip, flt, listing, files, esp_path_in_archive, temp_dir_name) ==
    LET ex == extract_files_from_archive(ext, rar, sevenzip, flt, listing,
                                         <<esp_path_in_archive>>, temp_dir_name, TRUE)
        after == files \cup ex.wrote
    IN  IF ex.raised # None
        THEN [raised |-> Exc("RuntimeError", "Failed ESP extraction", FALSE), fs |-> after,
              wrote |-> ex.wrote]
        ELSE IF ex.value[1] \notin after
        THEN [raised |-> Exc("RuntimeError", "Failed ESP extraction", FALSE), fs |-> after,
              wrote |-> ex.wrote]
        ELSE [raised |-> None, path |-> ex.value[1], fs |-> after, wrote |-> ex.wrote]

\* What goes wrong in the installation of an ESP, if anything; whatever goes
\* wrong first ends the installation.
FailurePoints ==
    {"nothing", "mkdtemp", "data directory", "copy", "registry read", "registry write"}

\* lines 236-248: [returned, raised, message, fs]; EOFError and
\* KeyboardInterrupt at the prompt are not caught here
install_esp_file(files, esp_filename_in_archive, ovr, failure) ==
    LET dest == flat_path(ESP_DATA_PATH, PathName(esp_filename_in_archive))
    IN  IF failure = "data directory"
        THEN [returned |-> "False", raised |-> None, message |-> "Could not create directory",
              fs |-> files]
        ELSE IF dest \in files /\ ovr = "n"
        THEN [returned |-> "False", raised |-> None, message |-> "Cancelled", fs |-> files]
        ELSE IF dest \in files /\ ovr = "eof"
        THEN [returned |-> "None", raised |-> Exc("EOFError", "", FALSE), message |-> "EOF",
              fs |-> files]
        ELSE IF dest \in files /\ ovr = "interrupt"
        THEN [returned |-> "None", raised |-> KeyboardInterrupt, message |-> "Interrupted",
              fs |-> files]
        ELSE IF failure = "copy"
        THEN [returned |-> "False", raised |-> None, message |-> "Failed copy ESP", fs |-> files]
        ELSE [returned |-> "True", raised |-> None, message |-> "Copy ok",
              fs |-> files \cup {dest}]

\* what process_esp_installation leaves: as Outcome, with plugins.txt and
\* the state of the temporary directory
EspOutcome(ret, exc, msg, files, wrote, sel, file, temp) ==
    [returned |-> ret, raised |-> exc, message |-> msg, fs |-> files, wrote |-> wrote,
     selected |-> sel, file |-> file, temp |-> temp]

\* lines 332-346: the try statement with its except clauses
process_esp_body(ext, rar, sevenzip, flt, listing, files, file, choice, ovr, failure) ==
    LET found == find_esps_in_archive(ext, rar, sevenzip, flt, listing)
        sel == select_from_list(found.value, choice)
        ex == extract_esp_to_temp(ext, rar, sevenzip, flt, listing, files, sel.item, TempDir)
        copied == install_esp_file(ex.fs, sel.item, ovr, failure)
        reg == register_plugin(file, sel.item, failure # "registry read",
                               failure # "registry write")
    IN  IF found.raised # None
        THEN EspOutcome("False", None, "ERROR ESP Install", files, {}, None, file, "none")
        ELSE IF found.value = <<>>
        THEN EspOutcome("False", None, "No .esp files found", files, {}, None, file, "none")
        ELSE IF sel.kind = "exit"
        THEN EspOutcome("None", SystemExit, "Cancelled", files, {}, None, file, "none")
        ELSE IF sel.kind = "none"
        THEN EspOutcome("False", None, "Cancelled", files, {}, None, file, "none")
        ELSE IF failure = "mkdtemp"
        THEN EspOutcome("False", None, "UNEXPECTED ESP Install ERROR", files, {}, sel.item,
                        file, "none")
        ELSE IF ex.raised # None
        THEN EspOutcome("False", None, "ERROR ESP Install", ex.fs, ex.wrote, sel.item, file,
                        "exists")
        ELSE IF copied.raised = KeyboardInterrupt
        THEN EspOutcome("None", KeyboardInterrupt, "Interrupted", copied.fs, ex.wrote,
                        sel.item, file, "exists")
        ELSE IF copied.raised # None
        THEN EspOutcome("False", None, "UNEXPECTED ESP Install ERROR", copied.fs, ex.wrote,
                        sel.item, file, "exists")
        ELSE IF copied.returned = "False"
        THEN EspOutcome("False", None, "ESP Install Fail (Copy)", copied.fs, ex.wrote, sel.item,
                        file, "exists")
        ELSE IF reg.returned = "False"
        THEN EspOutcome("False", None, "ESP Install Incomplete (Registry)", copied.fs, ex.wrote,
                        sel.item, file, "exists")
        ELSE EspOutcome("True", None, "ESP Install OK", copied.fs, ex.wrote, sel.item, reg.file,
                        "exists")

\* lines 347-350 run after a successful installation only
cleanup_on_success_only(out, rmtree_ok) ==
    IF out.temp = "exists" /\ out.returned = "True"
    THEN [out EXCEPT !.fs = { f \in out.fs : f.under # TempDir }, !.temp = "removed"]
    ELSE out

\* lines 347-350: the finally clause
cleanup(out, rmtree_ok) ==
    IF out.temp # "exists" THEN out
    ELSE IF rmtree_ok
    THEN [out EXCEPT !.fs = { f \in out.fs : f.under # TempDir }, !.temp = "removed"]
    ELSE [out EXCEPT !.temp = "removal failed"]

\* lines 329-350
process_esp_installation(ext, rar, sevenzip, flt, listing, files, file, choice, ovr, failure, rmtree_ok) ==
    cleanup(process_esp_body(ext, rar, sevenzip, flt, listing, files, file, choice, ovr,
                             failure),
            rmtree_ok)

(***************************************************************************)
(* install_mod_from_archive                                                *)
(***************************************************************************)
\* lines 600-603 letting the exception through
install_handlers_none(failed, files, file) ==
    EspOutcome("None", failed, "Traceback", files, {}, None, file, "none")

\* lines 600-603: the except clauses
install_handlers(failed, files, file) ==
    EspOutcome("False", None,
               IF failed.kind \in {"FileNotFoundError", "ValueError", "RuntimeError"}
               THEN "Cannot read archive" ELSE "CRITICAL ERROR",
               files, {}, None, file, "none")

\* lines 590-604: an EspOutcome.  For a Pak archive the failure "data
\* directory" stands for the Pak directory that cannot be made.
install_mod_from_archive(ext, rar, sevenzip, flt, listing, files, file, choice, ovr, failure, rmtree_ok) ==
    LET pak == find_pak_sets_in_archive(ext, rar, sevenzip, flt, listing)
        esp == find_esps_in_archive(ext, rar, sevenzip, flt, listing)
        p == process_pak_installation(ext, rar, sevenzip, flt, listing, files, choice,
                                      failure # "data directory", ovr)
        failed == IF pak.raised # None THEN pak.raised ELSE esp.raised
    IN  IF failed # None
        THEN install_handlers(failed, files, file)
        ELSE IF pak.value # <<>>
        THEN p @@ [file |-> file, temp |-> "none"]
        ELSE IF esp.value # <<>>
        THEN process_esp_installation(ext, rar, sevenzip, flt, listing, files, file, choice,
                                      ovr, failure, rmtree_ok)
        ELSE EspOutcome("False", None, "No installable content found", files, {}, None, file,
                        "none")

(***************************************************************************)
(* The installation of one archive.                                        *)
(***************************************************************************)
PakFlatListing ==
    << FileEntry(<<Nm("a", ".pak")>>), FileEntry(<<Nm("a", ".ucas")>>),
       FileEntry(<<Nm("a", ".utoc")>>), FileEntry(<<Nm("x", ""), Nm("readme", ".txt")>>) >>

PakFolderListing ==
    << DirEntry(<<Nm("Mod", "")>>), FileEntry(<<Nm("Mod", ""), Nm("a", ".pak")>>),
       FileEntry(<<Nm("Mod", ""), Nm("a", ".ucas")>>),
       FileEntry(<<Nm("Mod", ""), Nm("a", ".utoc")>>) >>

TwoPakListing ==
    << FileEntry(<<Nm("a", ".pak")>>), FileEntry(<<Nm("a", ".ucas")>>),
       FileEntry(<<Nm("a", ".utoc")>>), FileEntry(<<Nm("b", ".pak")>>),
       FileEntry(<<Nm("b", ".ucas")>>), FileEntry(<<Nm("b", ".utoc")>>) >>

EspListing == << FileEntry(<<Nm("Mod", ""), Nm("P", ".ESP")>>) >>

TwoEspListing ==
    << FileEntry(<<Nm("Mod", ""), Nm("P", ".ESP")>>),
       FileEntry(<<Nm("Mod", ""), Nm("A", ".esp")>>) >>

TraversalEspListing == << FileEntry(<<Nm("..", ""), Nm("P", ".ESP")>>) >>

NoContentListing == << FileEntry(<<Nm("readme", ".txt")>>) >>

Archive(ext, flt, listing) == [ext |-> ext, fault |-> flt, members |-> listing]

InstallArchives ==
    { Archive(".zip", "none", PakFlatListing), Archive(".zip", "none", PakFolderListing),
      Archive(".zip", "none", TwoPakListing), Archive(".zip", "none", EspListing),
      Archive(".zip", "none", TwoEspListing), Archive(".zip", "none", TraversalEspListing),
      Archive(".zip", "none", NoContentListing), Archive(".zip", "BadZipFile", <<>>),
      Archive(".zip", "FileNotFoundError", <<>>), Archive(".7z", "none", PakFolderListing),
      Archive(".rar", "none", EspListing), Archive(".rar", "BadRarFile", <<>>) }

\* the files that are there before the installation
InstalledBefore ==
    { {},
      { flat_path(PAK_MODS_PATH, Nm("a", ".pak")) },
      { flat_path(PAK_MODS_PATH, Nm("a", ".pak")), flat_path(PAK_MODS_PATH, Nm("a", ".ucas")),
        flat_path(PAK_MODS_PATH, Nm("a", ".utoc")) },
      { flat_path(ESP_DATA_PATH, Nm("P", ".ESP")) } }

RegistryBefore ==
    { <<>>, <<Nm("Oblivion", ".esm"), Nm("A", ".esp")>>, <<Nm("Oblivion", ".esm"), Nm("P", ".ESP")>> }

\* what the user does at "Overwrite? (y/n)"
Answers == {"y", "n", "eof", "interrupt"}

InitInstall ==
    /\ RAR_SUPPORT \in BOOLEAN
    /\ SEVENZIP_SUPPORT \in BOOLEAN
    /\ \E a \in InstallArchives :
          archive_ext = a.ext /\ fault = a.fault /\ members = a.members
    /\ files_to_extract = <<>>
    /\ target_ok = TRUE
    /\ fs \in InstalledBefore
    /\ plugins_txt \in RegistryBefore
    /\ NoBatch
    /\ NothingRun

untouched_by_install == <<env, results, files_to_extract, target_ok, extracted, load_order, batching>>

ProcessPakInstallation ==
    /\ op = "none"
    /\ op' = "pak_install"
    /\ \E choice \in Choices(2), dir_ok \in BOOLEAN, ovr \in Answers :
          \E out \in { process_pak_installation(archive_ext, RAR_SUPPORT, SEVENZIP_SUPPORT,
                                              fault, members, fs, choice, dir_ok, ovr) } :
              /\ returned' = out.returned
              /\ raised' = out.raised
              /\ message' = out.message
              /\ fs' = out.fs
              /\ written' = out.wrote
              /\ selected' = out.selected
    /\ UNCHANGED <<untouched_by_install, plugins_txt, temp_dir>>

ProcessEspInstallation ==
    /\ op = "none"
    /\ op' = "esp_install"
    /\ \E choice \in Choices(2), ovr \in Answers, failure \in FailurePoints,
          rmtree_ok \in BOOLEAN :
          \E out \in { process_esp_installation(archive_ext, RAR_SUPPORT, SEVENZIP_SUPPORT,
                                              fault, members, fs, plugins_txt, choice, ovr,
                                              failure, rmtree_ok) } :
              /\ returned' = out.returned
              /\ raised' = out.raised
              /\ message' = out.message
              /\ fs' = out.fs
              /\ written' = out.wrote
              /\ selected' = out.selected
              /\ plugins_txt' = out.file
              /\ temp_dir' = out.temp
    /\ UNCHANGED untouched_by_install

SpecPakInstall == InitInstall /\ [][ProcessPakInstallation]_vars

SpecEspInstall == InitInstall /\ [][ProcessEspInstallation]_vars

(***************************************************************************)
(* Batch mode: main, lines 527-548.                                        *)
(***************************************************************************)
\* lines 54-56
SUPPORTED_EXTENSIONS(rar, sevenzip) ==
    {".zip"} \cup (IF rar THEN {".rar"} ELSE {}) \cup (IF sevenzip THEN {".7z"} ELSE {})

\* lines 79-80
is_supported_archive(ext_as_given, rar, sevenzip) ==
    LowerStr(ext_as_given) \in SUPPORTED_EXTENSIONS(rar, sevenzip)

\* a command-line argument: a path with its suffix, whether a file is there,
\* and what the file holds
Argument(ext, flt, listing, is_file) ==
    [ext |-> ext, fault |-> flt, members |-> listing, is_file |-> is_file]

IsBatchArchive(arg) ==
    arg.is_file /\ is_supported_archive(arg.ext, RAR_SUPPORT, SEVENZIP_SUPPORT)

\* lines 527-530: the arguments that are files with a supported suffix, in
\* the order of the command line
archive_files_batch(argv) == SelectSeq(argv, IsBatchArchive)

Arguments ==
    { Argument(".zip", "BadZipFile", <<>>, TRUE),
      Argument(".ZIP", "none", TwoEspListing, TRUE),
      Argument(".zip", "none", PakFlatListing, TRUE),
      Argument(".rar", "none", EspListing, TRUE),
      Argument(".tar", "none", EspListing, TRUE),
      Argument(".zip", "none", EspListing, FALSE) }

CommandLines == UNION { [1..n -> Arguments] : n \in 1..MaxBatch }

\* what goes wrong while one archive of a batch is installed
BatchFailurePoints == {"nothing", "data directory", "registry write"}

InitBatch ==
    /\ RAR_SUPPORT \in BOOLEAN
    /\ SEVENZIP_SUPPORT \in BOOLEAN
    /\ archive_ext = ".zip"
    /\ fault = "none"
    /\ members = <<>>
    /\ files_to_extract = <<>>
    /\ target_ok = TRUE
    /\ fs = {}
    /\ NoRegistry
    /\ NothingRun
    /\ invoked = <<>>
    /\ batch_results = <<>>
    /\ \E argv \in CommandLines : batch = archive_files_batch(argv)
    /\ batch_pc = IF batch # <<>> THEN "running" ELSE "menu"

\* lines 543-545: one turn of the loop.  SystemExit and KeyboardInterrupt
\* leave main.
BatchInstall ==
    /\ batch_pc = "running"
    /\ Len(invoked) < Len(batch)
    /\ op' = "install"
    /\ \E archive_path \in { batch[Len(invoked) + 1] } :
          /\ archive_ext' = archive_path.ext
          /\ fault' = archive_path.fault
          /\ members' = archive_path.members
          /\ invoked' = Append(invoked, archive_path)
          /\ \E choice \in Choices(2), ovr \in Answers, failure \in BatchFailurePoints :
                \E out \in { install_mod_from_archive(archive_path.ext, RAR_SUPPORT,
                                 SEVENZIP_SUPPORT, archive_path.fault, archive_path.members,
                                 fs, plugins_txt, choice, ovr, failure, TRUE) } :
                    /\ returned' = out.returned
                    /\ raised' = out.raised
                    /\ message' = out.message
                    /\ fs' = out.fs
                    /\ written' = out.wrote
                    /\ selected' = out.selected
                    /\ plugins_txt' = out.file
                    /\ temp_dir' = out.temp
                    /\ IF out.raised = None
                       THEN /\ batch_results' = Append(batch_results, out.returned)
                            /\ batch_pc' = "running"
                       ELSE /\ batch_results' = batch_results
                            /\ batch_pc' = "left"
    /\ UNCHANGED <<RAR_SUPPORT, SEVENZIP_SUPPORT, results, files_to_extract, target_ok,
                   extracted, load_order, batch>>

\* lines 546-548
BatchComplete ==
    /\ batch_pc = "running"
    /\ Len(invoked) = Len(batch)
    /\ batch_pc' = "complete"
    /\ UNCHANGED <<env, results, raised, extraction, registry, installation, op, batch,
                   invoked, batch_results>>

NextBatch == BatchInstall \/ BatchComplete

SpecBatch == InitBatch /\ [][NextBatch]_vars

\* What every step of NextBatch does to the loop: a call for the next
\* archive that returns or leaves main, or the statement after the loop.
Advance ==
    /\ batch_pc = "running"
    /\ batch' = batch
    /\ \/ /\ Len(invoked) < Len(batch)
          /\ invoked' = Append(invoked, batch[Len(invoked) + 1])
          /\ \/ /\ batch_pc' = "running"
                /\ \E success_file \in {"True", "False"} :
                      batch_results' = Append(batch_results, success_file)
             \/ /\ batch_pc' = "left"
                /\ batch_results' = batch_results
       \/ /\ Len(invoked) = Len(batch)
          /\ invoked' = invoked
          /\ batch_results' = batch_results
          /\ batch_pc' = "complete"

\* The loop of lines 543-545 is sequential code: each call returns or raises
\* once the user has answered, and the statement after it is run.  The
\* fairness is on the loop's own variables: a batch that is running advances.
SpecBatchFair == SpecBatch /\ WF_batching(Advance)


(***************************************************************************)
(* Vocabulary of the properties.                                           *)
(***************************************************************************)
FirstSegment(p) == p.segs[1]

Ignorable(n) == Lower(n) \in IGNORE_ITEMS

RelevantExtensions == {".esp", ".pak", ".ucas", ".utoc"}

\* a file directly at the archive root whose extension is relevant, letter case aside
RelevantFileAtDepth1(ml) ==
    \E i \in 1..Len(ml) :
        /\ ~ml[i].is_dir
        /\ Len(ml[i].path.segs) = 1
        /\ LowerStr(ml[i].path.segs[1].ext) \in RelevantExtensions

AllUnder(ml, S) == \A i \in 1..Len(ml) : FirstSegment(ml[i].path) = S

\* some entry shows S to be a folder: a directory entry, or an entry below S
SomeEntryMakesFolder(ml) ==
    \E i \in 1..Len(ml) : ml[i].is_dir \/ Len(ml[i].path.segs) > 1

TopNames == { FirstSegment(e.path) : e \in Entries }

(***************************************************************************)
(* C1 (as stated): whenever all entries of the listing have the same first *)
(* path segment S and no file with a relevant extension lies at depth 1,   *)
(* _detect_single_folder_prefix returns S + "/".                           *)
(***************************************************************************)
C1_AsStated ==
    op = "detect" =>
        \A S \in TopNames :
            (/\ members # <<>>
             /\ AllUnder(members, S)
             /\ ~RelevantFileAtDepth1(members))
            => prefix = WithSlash(S)

(***************************************************************************)
(* C1 (amended): whenever all entries of the listing have the same first   *)
(* path segment S, S is not an ignorable name (letter case aside), some    *)
(* entry is a directory entry or lies below S, and no file with a relevant *)
(* extension lies at depth 1, _detect_single_folder_prefix returns S + "/".*)
(***************************************************************************)
C1_SingleFolderDetected ==
    op = "detect" =>
        \A S \in TopNames :
            (/\ members # <<>>
             /\ AllUnder(members, S)
             /\ ~Ignorable(S)
             /\ SomeEntryMakesFolder(members)
             /\ ~RelevantFileAtDepth1(members))
            => prefix = WithSlash(S)

C1_Witness ==
    /\ op = "detect"
    /\ Len(members) >= 3
    /\ AllUnder(members, Nm("Mod", ""))
    /\ \E i \in 1..Len(members) : ~members[i].is_dir
    /\ prefix = WithSlash(Nm("Mod", ""))

(***************************************************************************)
(* C2: _detect_single_folder_prefix returns S + "/" only if there are      *)
(* entries whose first segment is not ignorable, every one of them has the *)
(* first segment S, and no file with a relevant extension lies at depth 1. *)
(* In every other case it returns None: in particular for a listing with   *)
(* no non-ignorable entry, and for one with a relevant file at the root    *)
(* beside a single top folder.                                             *)
(***************************************************************************)
NonIgnorable(ml) == { i \in 1..Len(ml) : ~Ignorable(FirstSegment(ml[i].path)) }

C2_PrefixOnlyIf ==
    op = "detect" =>
        /\ prefix # None =>
              \E S \in TopNames :
                  /\ prefix = WithSlash(S)
                  /\ ~Ignorable(S)
                  /\ NonIgnorable(members) # {}
                  /\ \A i \in NonIgnorable(members) : FirstSegment(members[i].path) = S
                  /\ ~RelevantFileAtDepth1(members)
        /\ NonIgnorable(members) = {} => prefix = None
        /\ RelevantFileAtDepth1(members) => prefix = None

C2_Witness ==
    /\ op = "detect"
    /\ prefix = None
    /\ RelevantFileAtDepth1(members)
    /\ { FirstSegment(members[i].path) :
            i \in { j \in NonIgnorable(members) : Len(members[j].path.segs) > 1 } }
         = { Nm("Mod", "") }

(***************************************************************************)
(* C3: every unit find_pak_sets_in_archive returns has a pak, a ucas and a *)
(* utoc path, none of them missing; the three are files of the archive     *)
(* with these extensions and with one grouping key, so that a key for      *)
(* which the archive lacks one of the three extensions yields no unit.     *)
(***************************************************************************)
\* the grouping key of a path: its directory and its base name without the
\* extension, in lower case
GroupKey(p) ==
    [i \in 1..Len(p.segs) |->
        IF i < Len(p.segs) \/ p.segs[i].stem = ""
        THEN [stem |-> LowerStr(p.segs[i].stem), ext |-> LowerStr(p.segs[i].ext)]
        ELSE [stem |-> LowerStr(p.segs[i].stem), ext |-> ""]]

\* the archive holds a file with grouping key k and extension ext
HasMember(ml, k, ext) ==
    \E i \in 1..Len(ml) :
        /\ ~ml[i].is_dir
        /\ LowerStr(ml[i].path.segs[Len(ml[i].path.segs)].ext) = ext
        /\ ml[i].path.segs[Len(ml[i].path.segs)].stem # ""
        /\ GroupKey(ml[i].path) = k

IsMemberPath(ml, p, ext) ==
    \E i \in 1..Len(ml) :
        /\ ~ml[i].is_dir
        /\ ml[i].path = p
        /\ LowerStr(p.segs[Len(p.segs)].ext) = ext

C3_UnitsAreComplete ==
    op = "paks" =>
        \A j \in 1..Len(pak_sets) :
            LET u == pak_sets[j] IN
            /\ u.pak # None /\ u.ucas # None /\ u.utoc # None
            /\ IsMemberPath(members, u.pak, ".pak")
            /\ IsMemberPath(members, u.ucas, ".ucas")
            /\ IsMemberPath(members, u.utoc, ".utoc")
            /\ GroupKey(u.ucas) = GroupKey(u.pak)
            /\ GroupKey(u.utoc) = GroupKey(u.pak)
            /\ \A ext \in PAK_EXTENSIONS : HasMember(members, GroupKey(u.pak), ext)

\* one key is complete and yields a unit, another lacks its utoc and yields none
C3_Witness ==
    /\ op = "paks"
    /\ Len(pak_sets) = 1
    /\ \E i \in 1..Len(members) :
          /\ GroupKey(members[i].path) # GroupKey(pak_sets[1].pak)
          /\ PathEndsWith(members[i].path, {".pak"})
    /\ \E i \in 1..Len(members) :
          /\ GroupKey(members[i].path) # GroupKey(pak_sets[1].pak)
          /\ PathEndsWith(members[i].path, {".ucas"})

(***************************************************************************)
(* C4 (as stated): the set of units find_pak_sets_in_archive returns, with *)
(* their member paths, is the same for every enumeration order of the      *)
(* entries.  Every listing of the model is a state, and every permutation  *)
(* is a product of exchanges of two neighbouring entries, so the property  *)
(* is stated for these exchanges.                                          *)
(***************************************************************************)
\* the listing with entries i and i + 1 exchanged
Exchange(ml, i) ==
    [k \in 1..Len(ml) |-> IF k = i THEN ml[i + 1] ELSE IF k = i + 1 THEN ml[i] ELSE ml[k]]

UnitSet(units) == { units[j] : j \in 1..Len(units) }

KeySet(units) == { GroupKey(units[j].pak) : j \in 1..Len(units) }

C4_AsStated ==
    op = "paks" =>
        \A i \in 1..(Len(members) - 1) :
            UnitSet(pak_sets_in_members(Exchange(members, i))) = UnitSet(pak_sets)

(***************************************************************************)
(* C4 (amended): the set of grouping keys of the units returned is the     *)
(* same for every enumeration order; the units themselves, with their      *)
(* member paths, are the same for every order provided no two files of the *)
(* archive have the same grouping key and the same extension, letter case  *)
(* aside (of such files the one enumerated last becomes the member).       *)
(***************************************************************************)
\* two files that differ in spelling only: one grouping key, one extension
CaseTwins(ml) ==
    \E i, j \in 1..Len(ml) :
        /\ ml[i].path # ml[j].path
        /\ ~ml[i].is_dir /\ ~ml[j].is_dir
        /\ PathEndsWith(ml[i].path, PAK_EXTENSIONS)
        /\ GroupKey(ml[i].path) = GroupKey(ml[j].path)
        /\ Lower(ml[i].path.segs[Len(ml[i].path.segs)]).ext
             = Lower(ml[j].path.segs[Len(ml[j].path.segs)]).ext

C4_OrderIndependentKeys ==
    op = "paks" =>
        \A i \in 1..(Len(members) - 1) :
            LET other == pak_sets_in_members(Exchange(members, i)) IN
            /\ KeySet(other) = KeySet(pak_sets)
            /\ ~CaseTwins(members) => UnitSet(other) = UnitSet(pak_sets)

\* two complete sets, enumerated interleaved
C4_Witness ==
    /\ op = "paks"
    /\ Len(pak_sets) = 2
    /\ ~CaseTwins(members)
    /\ GroupKey(members[1].path) # GroupKey(members[2].path)
    /\ GroupKey(members[2].path) # GroupKey(members[3].path)

(***************************************************************************)
(* C5: entries whose directory and base name differ in letter case only    *)
(* fall under one grouping key: every key for which the files considered   *)
(* hold all three extensions yields exactly one unit, no two units have    *)
(* the same key, the units stand in the order in which their keys are      *)
(* first seen, and every member path is the path of an archive entry as    *)
(* the archive spells it.                                                  *)
(***************************************************************************)
\* the files the search considers: under the prefix pre when there is one
Considered(ml, pre) ==
    { i \in 1..Len(ml) :
        /\ ~ml[i].is_dir
        /\ PathEndsWith(ml[i].path, PAK_EXTENSIONS)
        /\ \/ pre = None
           \/ /\ WithSlash(FirstSegment(ml[i].path)) = pre
              /\ Len(ml[i].path.segs) > 1 }

\* the position at which key k is first seen among the positions in seen
FirstSeen(ml, seen, k) ==
    CHOOSE i \in seen :
        /\ GroupKey(ml[i].path) = k
        /\ \A h \in seen : GroupKey(ml[h].path) = k => i <= h

\* the keys for which the files at the positions in seen hold all three extensions
CompleteKeys(ml, seen) ==
    { k \in { GroupKey(ml[i].path) : i \in seen } :
        \A ext \in PAK_EXTENSIONS :
            \E i \in seen :
                /\ GroupKey(ml[i].path) = k
                /\ ml[i].path.segs[Len(ml[i].path.segs)].stem # ""
                /\ LowerStr(ml[i].path.segs[Len(ml[i].path.segs)].ext) = ext }

C5_OneUnitPerKeyInFirstSeenOrder ==
    op = "paks" =>
        LET seen == Considered(members, detect_single_folder_prefix(members)) IN
        /\ KeySet(pak_sets) = CompleteKeys(members, seen)
        /\ \A i, j \in 1..Len(pak_sets) :
              i < j =>
                /\ GroupKey(pak_sets[i].pak) # GroupKey(pak_sets[j].pak)
                /\ FirstSeen(members, seen, GroupKey(pak_sets[i].pak))
                     < FirstSeen(members, seen, GroupKey(pak_sets[j].pak))
        /\ \A j \in 1..Len(pak_sets) :
              /\ IsMemberPath(members, pak_sets[j].pak, ".pak")
              /\ IsMemberPath(members, pak_sets[j].ucas, ".ucas")
              /\ IsMemberPath(members, pak_sets[j].utoc, ".utoc")

\* two units, the key of the second seen first through its upper-case sidecar
\* and complete only through it
C5_Witness ==
    /\ op = "paks"
    /\ Len(pak_sets) = 2
    /\ pak_sets[1].ucas = [segs |-> <<Nm("Mod", ""), Nm("A", ".UCAS")>>, slash |-> FALSE]
    /\ members[1].path = pak_sets[1].ucas
    /\ \A i \in 1..Len(members) : members[i].path.segs[Len(members[i].path.segs)] # Nm("a", ".ucas")

(***************************************************************************)
(* C6: find_esps_in_archive returns exactly the entries that are files and *)
(* whose path ends in ".esp", letter case aside, restricted to the entries *)
(* under the wrapping prefix when one is detected; it returns their full   *)
(* archive paths, prefix included, in the archive's enumeration order.     *)
(***************************************************************************)
WantedEsp(ml, e) ==
    /\ ~e.is_dir
    /\ ~e.path.slash
    /\ LowerStr(e.path.segs[Len(e.path.segs)].ext) = ".esp"
    /\ \/ detect_single_folder_prefix(ml) = None
       \/ /\ WithSlash(FirstSegment(e.path)) = detect_single_folder_prefix(ml)
          /\ Len(e.path.segs) > 1

ExpectedEsps(ml) ==
    LET Wanted(e) == WantedEsp(ml, e)
        kept == SelectSeq(ml, Wanted)
    IN  [j \in 1..Len(kept) |-> kept[j].path]

C6_EspsInArchiveOrder ==
    op = "esps" => esps = ExpectedEsps(members)

\* the plugin under the folder is found with its full path; the one in the
\* ignorable folder lies outside the prefix
C6_Witness ==
    /\ op = "esps"
    /\ esps = << [segs |-> <<Nm("Mod", ""), Nm("P", ".ESP")>>, slash |-> FALSE] >>
    /\ \E i \in 1..Len(members) : FirstSegment(members[i].path) = Nm("__MACOSX", "")
    /\ detect_single_folder_prefix(members) = WithSlash(Nm("Mod", ""))

(***************************************************************************)
(* C7 (as stated): for an archive whose extension is not recognised, or is *)
(* ".rar" or ".7z" while the library for it is not installed,              *)
(* _get_archive_member_list raises ValueError and nothing else, whichever  *)
(* of the optional libraries are installed, and returns no entries.        *)
(***************************************************************************)
Unsupported ==
    \/ LowerStr(archive_ext) \notin {".zip", ".rar", ".7z"}
    \/ LowerStr(archive_ext) = ".rar" /\ ~RAR_SUPPORT
    \/ LowerStr(archive_ext) = ".7z" /\ ~SEVENZIP_SUPPORT

C7_AsStated ==
    (op = "list" /\ Unsupported) =>
        /\ raised # None
        /\ raised.kind = "ValueError"
        /\ listed = <<>>

(***************************************************************************)
(* C8: when the reader raises FileNotFoundError, ValueError or             *)
(* RuntimeError, find_esps_in_archive and find_pak_sets_in_archive raise   *)
(* that very exception; any other exception becomes a RuntimeError that    *)
(* names the archive; and no list is returned unless the reader returned   *)
(* one.                                                                    *)
(***************************************************************************)
ReaderOutcome ==
    get_archive_member_list(archive_ext, RAR_SUPPORT, SEVENZIP_SUPPORT, fault, members)

ReaderKinds == {"FileNotFoundError", "ValueError", "RuntimeError"}

C8_ReaderFailuresPropagate ==
    op \in {"esps", "paks"} =>
        /\ (raised = None) <=> (ReaderOutcome.raised = None)
        /\ raised # None => esps = <<>> /\ pak_sets = <<>>
        /\ ReaderOutcome.raised # None =>
              IF ReaderOutcome.raised.kind \in ReaderKinds
              THEN raised = ReaderOutcome.raised
              ELSE /\ raised.kind = "RuntimeError"
                   /\ raised.names_archive
                   /\ raised.text = IF op = "esps" THEN "Error searching ESPs in"
                                                   ELSE "Error searching Pak sets in"

\* a damaged archive: the reader's ValueError reaches the caller as it is
C8_Witness ==
    /\ op = "paks"
    /\ fault \in {"BadZipFile", "BadRarFile", "Bad7zFile"}
    /\ raised = Exc("ValueError", "Error reading", TRUE)
    /\ pak_sets = <<>>

(***************************************************************************)
(* C9 (as stated): a call of _extract_files_from_archive that returns,     *)
(* every requested path being an entry of the archive, has written exactly *)
(* the requested entries, each at the target directory joined with its     *)
(* full archive path, and returns these destination paths in the order of  *)
(* the request, one per requested path.                                    *)
(***************************************************************************)
ExpectedDest(p) == [under |-> TargetDir, rel |-> p.segs]

Requested == { files_to_extract[i] : i \in 1..Len(files_to_extract) }

ArchivePaths == { members[i].path : i \in 1..Len(members) }

C9_AsStated ==
    (op = "extract" /\ raised = None /\ Requested \subseteq ArchivePaths) =>
        /\ extracted = [i \in 1..Len(files_to_extract) |-> ExpectedDest(files_to_extract[i])]
        /\ written = { ExpectedDest(p) : p \in Requested }
        /\ written \subseteq fs

(***************************************************************************)
(* C10 (as stated): when a requested path is not in the archive (the       *)
(* archive opens, its type is supported, the target directory is there),   *)
(* _extract_files_from_archive raises ValueError and returns no paths, and *)
(* the entries requested before the missing one are written.               *)
(***************************************************************************)
Supported ==
    \/ archive_ext = ".zip"
    \/ archive_ext = ".rar" /\ RAR_SUPPORT
    \/ archive_ext = ".7z" /\ SEVENZIP_SUPPORT

C10_AsStated ==
    (/\ op = "extract"
     /\ target_ok
     /\ fault = "none"
     /\ Supported
     /\ ~(Requested \subseteq ArchivePaths))
    =>  /\ raised # None
        /\ raised.kind = "ValueError"
        /\ extracted = <<>>
        /\ \A i \in 1..Len(files_to_extract) :
              (\A h \in 1..i : files_to_extract[h] \in ArchivePaths)
              => ExpectedDest(files_to_extract[i]) \in fs

(***************************************************************************)
(* C13 (as stated): in every state of plugins.txt reached from one in      *)
(* which the default plugins precede the custom plugins, by registrations, *)
(* removals and confirmed load-order saves, every default entry precedes   *)
(* every custom entry.                                                     *)
(***************************************************************************)
IsDefaultName(n) == Lower(n) \in DEFAULT_PLUGINS

C13_AsStated ==
    LET entries == read_plugins_file(plugins_txt)
    IN  \A i, j \in 1..Len(entries) :
            (IsDefaultName(entries[i]) /\ ~IsDefaultName(entries[j])) => i < j

(***************************************************************************)
(* C14: a confirmed save of process_load_order writes exactly the default  *)
(* entries of plugins.txt in their order followed by the custom entries in *)
(* some order, every entry as often as it was read and none besides; and   *)
(* whatever else is typed at the prompt leaves the file as it was.         *)
(***************************************************************************)
Count(seq, x) == Cardinality({ i \in 1..Len(seq) : seq[i] = x })

SameEntries(a, b) ==
    /\ Len(a) = Len(b)
    /\ \A i \in 1..Len(a) : Count(a, a[i]) = Count(b, a[i])

DefaultEntries(file) == SelectSeq(read_plugins_file(file), IsDefaultName)

CustomsOf(seq) ==
    LET custom(n) == ~IsDefaultName(n) IN SelectSeq(seq, custom)

C14_SaveWritesDefaultsThenPermutation ==
    [][ pc = "new_order" =>
          IF message' = "saved"
          THEN LET defaults == DefaultEntries(plugins_txt)
                   customs == CustomsOf(read_plugins_file(plugins_txt))
                   tail == SubSeq(plugins_txt', Len(defaults) + 1, Len(plugins_txt'))
               IN  /\ Len(plugins_txt') = Len(defaults) + Len(customs)
                   /\ SubSeq(plugins_txt', 1, Len(defaults)) = defaults
                   /\ SameEntries(tail, customs)
          ELSE plugins_txt' = plugins_txt ]_vars

\* a save that changed the order of two or more custom entries below a
\* default entry
C14_Witness ==
    /\ message = "saved"
    /\ default_section # <<>>
    /\ Len(custom_section) >= 2
    /\ plugins_txt # default_section \o custom_section
    /\ SameEntries(plugins_txt, default_section \o custom_section)

(***************************************************************************)
(* C16 (as stated): in every state of plugins.txt reached from one without *)
(* two entries equal letter case aside, by registrations, removals and     *)
(* confirmed load-order saves, no two entries are equal letter case aside; *)
(* and a registration that finds the name present returns True.            *)
(***************************************************************************)
C16_AsStated ==
    LET entries == read_plugins_file(plugins_txt)
    IN  /\ \A i, j \in 1..Len(entries) :
              Lower(entries[i]) = Lower(entries[j]) => i = j
        /\ (op = "register" /\ message = "already registered") => returned = "True"

(***************************************************************************)
(* C12 (as stated): whenever process_pak_installation reports success for  *)
(* a selected package set, each of the three files of the set, as the      *)
(* archive holds it, has been put directly in the Pak mods directory under *)
(* its base name, wherever the set lies in the archive and whether or not  *)
(* files of these names were there before.                                 *)
(***************************************************************************)
SelectedFiles == <<selected.pak, selected.ucas, selected.utoc>>

C12_AsStated ==
    (op = "pak_install" /\ returned = "True") =>
        \A k \in 1..3 :
            LET flat == flat_path(PAK_MODS_PATH, PathName(SelectedFiles[k]))
            IN  flat \in fs /\ flat \in written

(***************************************************************************)
(* C15: when process_esp_installation has ended, by a return or by an      *)
(* exception, after it made its temporary directory, the directory and     *)
(* what was extracted into it are gone, unless the removal itself failed.  *)
(***************************************************************************)
UnderTempDir == { f \in fs : f.under = TempDir }

C15_TempDirRemoved ==
    (op = "esp_install" /\ temp_dir # "none" /\ temp_dir # "removal failed") =>
        (temp_dir = "removed" /\ UnderTempDir = {})

\* an installation that extracted the ESP into the temporary directory,
\* failed afterwards and left no temporary directory
C15_Witness ==
    /\ op = "esp_install"
    /\ returned = "False"
    /\ message \in {"ESP Install Fail (Copy)", "ESP Install Incomplete (Registry)"}
    /\ written # {}
    /\ temp_dir = "removed"
    /\ UnderTempDir = {}

(***************************************************************************)
(* C11.  Vocabulary: the archive in hand met an error of the taxonomy when *)
(* it could not be read, when a listed file could not be extracted, or     *)
(* when the destination directory could not be made.                       *)
(***************************************************************************)
TaxonomyError ==
    /\ op = "install"
    /\ \/ get_archive_member_list(archive_ext, RAR_SUPPORT, SEVENZIP_SUPPORT, fault,
                                  members).raised # None
       \/ message \in {"Cannot read archive", "CRITICAL ERROR", "ERROR Pak Install",
                       "ERROR ESP Install", "Could not create directory"}

\* the call made for the archive returned False, raised nothing, and the
\* loop goes on
EndsOnlyItsArchive ==
    TaxonomyError =>
        /\ returned = "False"
        /\ raised = None
        /\ batch_pc \in {"running", "complete"}
        /\ Len(batch_results) = Len(invoked)
        /\ batch_results[Len(invoked)] = "False"

\* the archives of the batch are taken one after the other in the order of
\* the arguments, none twice, and all of them before the batch is complete
InArgumentOrder ==
    /\ Len(invoked) <= Len(batch)
    /\ invoked = SubSeq(batch, 1, Len(invoked))
    /\ batch_pc = "complete" => (invoked = batch /\ Len(batch_results) = Len(batch))

\* the batch is left only by SystemExit or KeyboardInterrupt, raised at a
\* prompt
LeftFromThePrompt ==
    batch_pc = "left" =>
        /\ raised \in {SystemExit, KeyboardInterrupt}
        /\ message \in {"Cancelled", "Interrupted"}
        /\ ~TaxonomyError

(***************************************************************************)
(* C11 (as stated): in batch mode an error of the taxonomy met with one    *)
(* archive ends only that archive: install_mod_from_archive returns False  *)
(* for it without raising; the function is called once for every archive   *)
(* of the batch in the order of the arguments; and every batch reaches     *)
(* 'Batch Processing Complete'.                                            *)
(***************************************************************************)
C11_AsStated ==
    /\ [](EndsOnlyItsArchive /\ InArgumentOrder)
    /\ (batch_pc = "running") ~> (batch_pc = "complete" /\ invoked = batch)

(***************************************************************************)
(* C11 (amended): in batch mode an error of the taxonomy met with one      *)
(* archive ends only that archive: install_mod_from_archive returns False  *)
(* for it without raising and the loop goes on; the archives are taken in  *)
(* the order of the arguments, none twice; and the batch reaches 'Batch    *)
(* Processing Complete', having taken every archive, unless SystemExit or  *)
(* KeyboardInterrupt raised at a prompt ends the process before.           *)
(***************************************************************************)
C11_ErrorsEndOnlyTheirArchive ==
    /\ [](EndsOnlyItsArchive /\ InArgumentOrder /\ LeftFromThePrompt)
    /\ (batch_pc = "running") ~> (batch_pc \in {"complete", "left"})

\* a batch of two archives completed, the first of which could not be read
\* and the second of which was installed
C11_Witness ==
    /\ batch_pc = "complete"
    /\ Len(batch) = 2
    /\ invoked = batch
    /\ invoked[1].fault # "none"
    /\ batch_results = <<"False", "True">>

====
